---------------------------- MODULE Spec2Model ----------------------------
(***************************************************************************)
(* A model of the bms-logcat logbook codec (src/src/logbook.rs):           *)
(*   - the stream cipher wrappers DecryptRead / EncryptWrite,              *)
(*   - the password mask xor_password / write_password,                    *)
(*   - the fixed-width text helpers buf_to_str / write_padded,             *)
(*   - Logbook::parse and Logbook::write.                                  *)
(* Bytes are integers 0..255; text is a sequence of bytes (its UTF-8       *)
(* encoding); a byte stream is a sequence of bytes.                        *)
(***************************************************************************)
EXTENDS Integers, Sequences, FiniteSets, TLC

VARIABLES
    \* ---- cipher wrappers (SpecCipher) ----
    input,      \* the bytes fed to the first stage of the pipeline
    reg0,       \* the initial value of both feedback registers
    dir,        \* "enc_dec": input -> EncryptWrite -> sink -> DecryptRead
                \* "dec_enc": input -> DecryptRead -> EncryptWrite -> sink
    ew,         \* the EncryptWrite object: inner (bytes the sink received),
                \* start, bytes_written
    reported,   \* the plaintext bytes EncryptWrite::write reported as written
    wret,       \* what the last EncryptWrite::write call returned
    wsink,      \* how the sink stopped that call: "one", "zero" or "err"
    dr,         \* the DecryptRead object: start, bytes_read
    rout,       \* the plaintext DecryptRead has produced so far
    rret,       \* what the last DecryptRead::read call returned
    \* ---- logbook codec (SpecCodec) ----
    book,       \* the Logbook record in memory, or NoBook
    file,       \* the logbook byte stream (the .lbk file), or NoFile
    last,       \* the operation that produced this state
    result,     \* what that operation returned
    before      \* book, file, last and result as they were before it

cipherVars == <<input, reg0, dir, ew, reported, wret, wsink, dr, rout, rret>>
codecVars == <<book, file, last, result, before>>
vars == <<input, reg0, dir, ew, reported, wret, wsink, dr, rout, rret,
          book, file, last, result, before>>

(***************************************************************************)
(* Bounds of the model.                                                    *)
(***************************************************************************)
\* longest byte sequence pushed through the cipher wrappers
MaxLen == 23
\* longest buffer handed to one EncryptWrite::write / DecryptRead::read call
MaxChunk == 2
\* how many bytes past its field's width a text of a record may be
MaxOver == 1
\* how many bytes may follow the sentinel in a stream
MaxExtra == 1

(***************************************************************************)
(* Bytes and exclusive or.                                                 *)
(***************************************************************************)
Byte == 0..255

Min(a, b) == IF a < b THEN a ELSE b

(***************************************************************************)
(* Evaluation order.  The code is strict and its loops run in order; TLC   *)
(* evaluates a LET definition or an operator argument again at each use    *)
(* and recurses on its own stack.  With(Op, a) is Op(a) with a evaluated   *)
(* once (LET x == a IN Op(x)), and ForEach runs the iterations lo..hi of a *)
(* loop in order, each on the state the one before left, splitting the     *)
(* range in halves so that the depth of the evaluation stays small.        *)
(***************************************************************************)
With(Op(_), a) == CHOOSE r \in { Op(x) : x \in {a} } : TRUE

With2(Op(_, _), a, b) ==
    CHOOSE r \in { Op(x, y) : x \in {a}, y \in {b} } : TRUE

RECURSIVE ForEach(_, _, _, _)
ForEach(Body(_, _), st, lo, hi) ==
    IF lo > hi THEN st
    ELSE IF lo = hi THEN Body(st, lo)
    ELSE With(LAMBDA m : ForEach(Body, m, ((lo + hi) \div 2) + 1, hi),
              ForEach(Body, st, lo, (lo + hi) \div 2))

\* exclusive or of two 4-bit values, bit by bit
NibbleXor ==
    [a \in 0..15 |-> [b \in 0..15 |->
        ((a + b) % 2)
      + 2 * (((a \div 2) + (b \div 2)) % 2)
      + 4 * (((a \div 4) + (b \div 4)) % 2)
      + 8 * (((a \div 8) + (b \div 8)) % 2)]]

\* the u8 operator ^ (as used by *b ^= ... and to_write ^= ...)
Xor(a, b) == NibbleXor[a % 16][b % 16] + 16 * NibbleXor[a \div 16][b \div 16]

\* b"Falcon is your Master"
MASTER_KEY ==
    <<70, 97, 108, 99, 111, 110, 32, 105, 115, 32, 121, 111, 117, 114, 32,
      77, 97, 115, 116, 101, 114>>

\* a variant of KeyByte whose index runs one ahead of the stream position
KeyByte_ahead(pos) == MASTER_KEY[((pos + 1) % Len(MASTER_KEY)) + 1]

\* MASTER_KEY[pos % MASTER_KEY.len()]  (Rust indexes from 0, TLA+ from 1)
KeyByte(pos) == MASTER_KEY[(pos % Len(MASTER_KEY)) + 1]

(***************************************************************************)
(* DecryptRead                                                             *)
(***************************************************************************)
DecryptRead_new(start) == [start |-> start, bytes_read |-> 0]

\* a variant of DecryptByte that feeds the plaintext back into the register
DecryptByte_plainFeedback(r, b) ==
    LET p == Xor(Xor(b, r.start), KeyByte(r.bytes_read))
    IN  [r |-> [start |-> p, bytes_read |-> r.bytes_read + 1], b |-> p]

\* the body of the for loop of DecryptRead::read, for one byte b of buf
DecryptByte(r, b) ==
    [r |-> [start |-> b, bytes_read |-> r.bytes_read + 1],
     b |-> Xor(Xor(b, r.start), KeyByte(r.bytes_read))]

\* one iteration of the for loop of DecryptRead::read, on the reader and the
\* bytes of buf decrypted so far
DecryptStep(st, b) ==
    With(LAMBDA d : [r |-> d.r, buf |-> Append(st.buf, d.b)],
         DecryptByte(st.r, b))

\* DecryptRead::read when inner.read(buf) put the bytes `got` into buf: the
\* for loop over buf[..amount_read]; the reader after it and the bytes in buf
DecryptRead_read(r, got) ==
    With(LAMBDA buf :
            ForEach(LAMBDA st, i : DecryptStep(st, buf[i]),
                    [r |-> r, buf |-> <<>>], 1, Len(buf)),
         got)

(***************************************************************************)
(* EncryptWrite                                                            *)
(***************************************************************************)
EncryptWrite_new(start) ==
    [inner |-> <<>>, start |-> start, bytes_written |-> 0]

IoOk(n) == [ok |-> TRUE, n |-> n]
IoErr == [ok |-> FALSE, n |-> 0]

\* the Ok(1) arm of EncryptWrite::write: the sink took to_write
Accepted(w, to_write) ==
    [inner |-> Append(w.inner, to_write),
     start |-> to_write,
     bytes_written |-> w.bytes_written + 1]

\* a variant of the Err arm that counts the refused byte as written
Refused_counted(w, this_write) ==
    [w |-> [w EXCEPT !.bytes_written = @ + 1],
     ret |-> IF this_write = 0 THEN IoErr ELSE IoOk(this_write)]

\* the Err(e) arm of EncryptWrite::write: the sink refused the byte
Refused(w, this_write) ==
    [w |-> w, ret |-> IF this_write = 0 THEN IoErr ELSE IoOk(this_write)]

\* the loop has not been left
Looping == [ok |-> TRUE, n |-> -1]

\* one iteration of the for loop of EncryptWrite::write for the byte b of
\* buf, where `does` is what self.inner.write(&[to_write]) answers:
\* "one" (Ok(1)), "zero" (Ok(0), break) or "err" (Err(e): return or break).
\* st.ret is Looping until the loop is left.
EncryptStep(st, b, does) ==
    IF st.ret # Looping THEN st
    ELSE With(LAMBDA to_write :
            CASE does = "zero" -> [st EXCEPT !.ret = IoOk(st.this_write)]
              [] does = "one" ->
                    [w |-> Accepted(st.w, to_write),
                     this_write |-> st.this_write + 1,
                     ret |-> Looping]
              [] does = "err" ->
                    With(LAMBDA rf : [w |-> rf.w, this_write |-> st.this_write,
                                      ret |-> rf.ret],
                         Refused(st.w, st.this_write)),
            Xor(Xor(b, KeyByte(st.w.bytes_written)), st.w.start))

\* EncryptWrite::write(buf) over a sink that answers sinkDoes[i] for buf[i]:
\* the writer after the call and what the call returns
EncryptWrite_write(w, buf, sinkDoes) ==
    With2(LAMBDA b, does :
            With(LAMBDA end :
                    [w |-> end.w,
                     ret |-> IF end.ret = Looping THEN IoOk(end.this_write)
                             ELSE end.ret],
                 ForEach(LAMBDA st, i : EncryptStep(st, b[i], does[i]),
                         [w |-> w, this_write |-> 0, ret |-> Looping],
                         1, Len(b))),
          buf, sinkDoes)

(***************************************************************************)
(* Field widths (logbook.rs:96-101).                                       *)
(***************************************************************************)
FILENAME_LEN == 32
PASSWORD_LEN == 10
CALLSIGN_LEN == 12
PERSONAL_TEXT_LEN == 120
COMM_LEN == 12
NAME_LEN == 20

Zeros(n) == [i \in 1..n |-> 0]

Drop(s, n) == SubSeq(s, n + 1, Len(s))
Take(s, n) == SubSeq(s, 1, n)

(***************************************************************************)
(* Little-endian numbers (byteorder's read_*::<LE> / write_*::<LE> and     *)
(* byte_struct's little-endian fields).  An n-byte signed integer v is     *)
(* written as the n low bytes of its two's complement.                     *)
(***************************************************************************)
RECURSIVE IntToLE(_, _)
IntToLE(v, n) ==
    IF n = 0 THEN <<>> ELSE <<v % 256>> \o IntToLE(v \div 256, n - 1)

\* the signed value of little-endian bytes b: the last byte carries the sign
RECURSIVE LEToInt(_)
LEToInt(b) ==
    IF Len(b) = 1 THEN (IF b[1] >= 128 THEN b[1] - 256 ELSE b[1])
    ELSE b[1] + 256 * LEToInt(Drop(b, 1))

(***************************************************************************)
(* Rank (repr(i32), TryFromPrimitive / IntoPrimitive) and Medals.          *)
(***************************************************************************)
Rank ==
    <<"SecondLt", "Leiutenant", "Captain", "Major", "LtColonel", "Colonel",
      "BrigadierGeneral">>

\* a variant of Rank::into() that numbers the ranks from 1
Rank_into_oneBased(rank) == CHOOSE i \in 1..Len(Rank) : Rank[i] = rank

\* Rank::into(): the ordinal of a rank
Rank_into(rank) == (CHOOSE i \in 1..Len(Rank) : Rank[i] = rank) - 1

\* a variant of Rank::try_from that numbers the ranks from 1
Rank_try_from_oneBased(number) ==
    IF number \in 1..Len(Rank)
    THEN [ok |-> TRUE, rank |-> Rank[number]]
    ELSE [ok |-> FALSE, number |-> number]

\* a variant of Rank::try_from that refuses no number: it wraps around
Rank_try_from_wrapping(number) ==
    [ok |-> TRUE, rank |-> Rank[(number % Len(Rank)) + 1]]

\* Rank::try_from(i32): the rank with that ordinal, or the number refused
Rank_try_from(number) ==
    IF number \in 0..(Len(Rank) - 1)
    THEN [ok |-> TRUE, rank |-> Rank[number + 1]]
    ELSE [ok |-> FALSE, number |-> number]

\* Medals::into_enum_iter(): the medals in declaration order
Medals ==
    <<"AirForceCross", "SilverStar", "DistinguishedFlyingCross", "AirMedal",
      "KoreaCampaign", "Longevity">>

(***************************************************************************)
(* DogfightStats and CampaignStats (derive(ByteStruct), little endian):    *)
(* the fields in declaration order with their sizes in bytes.              *)
(***************************************************************************)
DogfightStats ==
    << <<"matches_won", 2>>, <<"matches_lost", 2>>,
       <<"matches_won_versus_humans", 2>>, <<"matches_lost_versus_humans", 2>>,
       <<"kills", 2>>, <<"killed", 2>>, <<"human_kills", 2>>,
       <<"killed_versus_humans", 2>> >>

\* a variant of CampaignStats with the first 32-bit score before `missions`
CampaignStats_swapped ==
    << <<"games_won", 2>>, <<"game_lost", 2>>, <<"games_tied", 2>>,
       <<"total_score", 4>>, <<"missions", 2>>, <<"total_mission_score", 4>>,
       <<"consecutive_missions", 2>>, <<"kills", 2>>, <<"killed", 2>>,
       <<"human_kills", 2>>, <<"killed_versus_humans", 2>>,
       <<"self_kills", 2>>, <<"air_to_ground_kills", 2>>,
       <<"static_kills", 2>>, <<"naval_kills", 2>>, <<"friendly_kills", 2>>,
       <<"missions_since_last_friendly_kill", 2>> >>

CampaignStats ==
    << <<"games_won", 2>>, <<"game_lost", 2>>, <<"games_tied", 2>>,
       <<"missions", 2>>, <<"total_score", 4>>, <<"total_mission_score", 4>>,
       <<"consecutive_missions", 2>>, <<"kills", 2>>, <<"killed", 2>>,
       <<"human_kills", 2>>, <<"killed_versus_humans", 2>>,
       <<"self_kills", 2>>, <<"air_to_ground_kills", 2>>,
       <<"static_kills", 2>>, <<"naval_kills", 2>>, <<"friendly_kills", 2>>,
       <<"missions_since_last_friendly_kill", 2>> >>

\* ByteStruct::BYTE_LEN: the sum of the field sizes
RECURSIVE BYTE_LEN(_)
BYTE_LEN(fields) ==
    IF fields = <<>> THEN 0 ELSE fields[1][2] + BYTE_LEN(Drop(fields, 1))

\* ByteStruct::write_bytes: each field in turn, little endian
RECURSIVE write_bytes(_, _)
write_bytes(fields, stats) ==
    IF fields = <<>> THEN <<>>
    ELSE IntToLE(stats[fields[1][1]], fields[1][2])
         \o write_bytes(Drop(fields, 1), stats)

\* ByteStruct::read_bytes: each field in turn from the front of buf
RECURSIVE read_bytes(_, _)
read_bytes(fields, buf) ==
    IF fields = <<>> THEN <<>>
    ELSE (fields[1][1] :> LEToInt(Take(buf, fields[1][2])))
         @@ read_bytes(Drop(fields, 1), Drop(buf, fields[1][2]))

(***************************************************************************)
(* Text fields.                                                            *)
(***************************************************************************)
\* the decoder between characters, and after a malformed byte
Utf8Start == [ok |-> TRUE, need |-> 0, lo |-> 0, hi |-> 127]
Utf8Bad == [ok |-> FALSE, need |-> 0, lo |-> 0, hi |-> 0]
Utf8Need(n, lo, hi) == [ok |-> TRUE, need |-> n, lo |-> lo, hi |-> hi]

\* one byte of std::str::from_utf8's validation: a lead byte says how many
\* continuation bytes follow and which range the first of them must be in
\* (no overlong forms, no surrogates, nothing above U+10FFFF)
Utf8Step(st, b) ==
    IF ~st.ok THEN st
    ELSE IF st.need > 0
    THEN IF b \in st.lo..st.hi
         THEN (IF st.need = 1 THEN Utf8Start
               ELSE Utf8Need(st.need - 1, 128, 191))
         ELSE Utf8Bad
    ELSE CASE b < 128 -> Utf8Start
           [] b \in 194..223 -> Utf8Need(1, 128, 191)
           [] b = 224 -> Utf8Need(2, 160, 191)
           [] b \in (225..236) \cup {238, 239} -> Utf8Need(2, 128, 191)
           [] b = 237 -> Utf8Need(2, 128, 159)
           [] b = 240 -> Utf8Need(3, 144, 191)
           [] b \in 241..243 -> Utf8Need(3, 128, 191)
           [] b = 244 -> Utf8Need(3, 128, 143)
           [] OTHER -> Utf8Bad

\* std::str::from_utf8(buf).is_ok()
from_utf8_ok(buf) ==
    With(LAMBDA b :
            ForEach(LAMBDA st, i : Utf8Step(st, b[i]), Utf8Start, 1, Len(b))
                = Utf8Start,
         buf)

\* s.split('\0').next().unwrap(): the bytes before the first zero byte
UpToNul(buf) ==
    IF \E i \in 1..Len(buf) : buf[i] = 0
    THEN Take(buf, (CHOOSE i \in 1..Len(buf) :
                        buf[i] = 0 /\ \A j \in 1..(i - 1) : buf[j] # 0) - 1)
    ELSE buf

\* buf_to_str
buf_to_str(buf) ==
    With(LAMBDA b : IF from_utf8_ok(b) THEN [ok |-> TRUE, str |-> UpToNul(b)]
                    ELSE [ok |-> FALSE],
         buf)

(***************************************************************************)
(* Results of Logbook::parse and Logbook::write.                           *)
(***************************************************************************)
Running == [kind |-> "Running"]
Ok == [kind |-> "Ok"]
\* anyhow errors, by message
TooLong(s, limit) == [kind |-> "TooLong", value |-> s, limit |-> limit]
PasswordTooLong(pw, limit) ==
    [kind |-> "PasswordTooLong", value |-> pw, limit |-> limit]
VoiceTooBig(voice) == [kind |-> "VoiceTooBig", value |-> voice]
InvalidRank(number) == [kind |-> "InvalidRank", value |-> number]
BadChecksum == [kind |-> "BadChecksum"]
Utf8Error == [kind |-> "Utf8Error"]
UnexpectedEof == [kind |-> "UnexpectedEof"]
\* a failed assert_eq!: the process panics
Panic(what) == [kind |-> "Panic", what |-> what]

(***************************************************************************)
(* xor_password / write_password                                           *)
(***************************************************************************)
\* b"Who needs a password!"
MASK1 ==
    <<87, 104, 111, 32, 110, 101, 101, 100, 115, 32, 97, 32, 112, 97, 115,
      115, 119, 111, 114, 100, 33>>

\* b"Repend, Falcon is coming!"
MASK2 ==
    <<82, 101, 112, 101, 110, 100, 44, 32, 70, 97, 108, 99, 111, 110, 32,
      105, 115, 32, 99, 111, 109, 105, 110, 103, 33>>

\* the loop body of xor_password for 0-based index i
MaskByte(i, b) ==
    Xor(Xor(b, MASK1[(i % Len(MASK1)) + 1]), MASK2[(i % Len(MASK2)) + 1])

\* xor_password: the two asserts, then the first PASSWORD_LEN bytes masked
xor_password(buf) ==
    With(LAMBDA pw :
            IF Len(pw) # PASSWORD_LEN + 1
            THEN [ok |-> FALSE, what |-> "pw.len()"]
            ELSE IF pw[PASSWORD_LEN + 1] # 0
            THEN [ok |-> FALSE, what |-> "pw[PASSWORD_LEN]"]
            ELSE [ok |-> TRUE,
                  pw |-> [i \in 1..Len(pw) |->
                            IF i <= PASSWORD_LEN THEN MaskByte(i - 1, pw[i])
                            ELSE pw[i]]],
         buf)

(***************************************************************************)
(* The writer side.  A writer state is the EncryptWrite object, the result *)
(* so far (Running until a statement fails) and the positions seen by the  *)
(* assert_eq!(w.position() % 4, 0) statements.  The sink of Logbook::write *)
(* takes every byte (main hands it a BufWriter).                           *)
(***************************************************************************)
\* Write::write_all(buf) on the EncryptWrite
write_all(w, buf) ==
    With2(LAMBDA w0, b :
            EncryptWrite_write(w0, b, [i \in 1..Len(b) |-> "one"]).w,
          w, buf)

\* a variant of write_padded that accepts a string that fills the field
write_padded_inclusive(ws, s, pad_to) ==
    IF ~(Len(s) <= pad_to)
    THEN [ws EXCEPT !.res = TooLong(s, pad_to - 1)]
    ELSE [ws EXCEPT !.w = write_all(write_all(ws.w, s),
                                    Zeros(pad_to - Len(s)))]

\* write_padded
write_padded(ws, s, pad_to) ==
    IF ~(Len(s) < pad_to)
    THEN [ws EXCEPT !.res = TooLong(s, pad_to - 1)]
    ELSE [ws EXCEPT !.w = write_all(write_all(ws.w, s),
                                    Zeros(pad_to - Len(s)))]

\* write_password
write_password(ws, pw) ==
    IF ~(Len(pw) <= PASSWORD_LEN)
    THEN [ws EXCEPT !.res = PasswordTooLong(pw, PASSWORD_LEN)]
    ELSE With(LAMBDA x :
                IF x.ok THEN [ws EXCEPT !.w = write_all(ws.w, x.pw)]
                ELSE [ws EXCEPT !.res = Panic(x.what)],
              xor_password(pw \o Zeros(PASSWORD_LEN + 1 - Len(pw))))

\* w.write_all(&bytes)?
put(ws, bytes) == [ws EXCEPT !.w = write_all(ws.w, bytes)]

\* assert_eq!(w.position() % 4, 0)
w_assert_aligned(ws) ==
    LET at == [ws EXCEPT !.checks = Append(@, ws.w.bytes_written)]
    IN  IF ws.w.bytes_written % 4 = 0 THEN at
        ELSE [at EXCEPT !.res = Panic("position")]

\* the for loop over Medals::into_enum_iter() of Logbook::write
medal_flags(medals) ==
    [i \in 1..Len(Medals) |-> IF Medals[i] \in medals THEN 1 ELSE 0]

\* ensure!(voice < 12, ...)
ensure_voice(voice) == voice < 12

\* the statements of Logbook::write after EncryptWrite::new, in order
WriteStatement(i, self, ws) ==
    CASE i = 1 -> write_padded(ws, self.name, NAME_LEN + 1)
      [] i = 2 -> write_padded(ws, self.callsign, CALLSIGN_LEN + 1)
      [] i = 3 -> write_password(ws, self.password)
      [] i = 4 -> write_padded(ws, self.commissioned, COMM_LEN + 1)
      [] i = 5 -> write_padded(ws, self.options_file, CALLSIGN_LEN + 1)
      [] i = 6 -> put(ws, Zeros(1))
      [] i = 7 -> put(ws, IntToLE(self.flight_hours, 4))
      [] i = 8 -> put(ws, IntToLE(self.ace_factor, 4))
      [] i = 9 -> put(ws, IntToLE(Rank_into(self.rank), 4))
      [] i = 10 -> w_assert_aligned(ws)
      [] i = 11 -> put(ws, write_bytes(DogfightStats, self.dogfight_stats))
      [] i = 12 -> w_assert_aligned(ws)
      [] i = 13 -> put(ws, write_bytes(CampaignStats, self.campaign_stats))
      [] i = 14 -> put(ws, Zeros(2))
      [] i = 15 -> w_assert_aligned(ws)
      [] i = 16 -> put(ws, medal_flags(self.medals))
      [] i = 17 -> put(ws, Zeros(2))
      [] i = 18 -> w_assert_aligned(ws)
      [] i = 19 -> put(ws, Zeros(4))
      [] i = 20 -> write_padded(ws, self.picture_file, FILENAME_LEN + 1)
      [] i = 21 -> put(ws, Zeros(3))
      [] i = 22 -> w_assert_aligned(ws)
      [] i = 23 -> put(ws, Zeros(4))
      [] i = 24 -> write_padded(ws, self.patch_file, FILENAME_LEN + 1)
      [] i = 25 -> write_padded(ws, self.personal_text, PERSONAL_TEXT_LEN + 1)
      [] i = 26 -> write_padded(ws, self.squadron, NAME_LEN)
      [] i = 27 -> IF ensure_voice(self.voice) THEN ws
                   ELSE [ws EXCEPT !.res = VoiceTooBig(self.voice)]
      [] i = 28 -> put(ws, IntToLE(self.voice, 2))
      [] i = 29 -> put(ws, IntToLE(0, 4))
      [] i = 30 -> [ws EXCEPT !.res = Ok]

\* Logbook::write: its statements in order until one of them returns or
\* panics; the result, the bytes the sink received and the positions the
\* alignment asserts saw
Logbook_write(self) ==
    With(LAMBDA ws : [res |-> ws.res, out |-> ws.w.inner, checks |-> ws.checks],
         ForEach(LAMBDA ws, i : IF ws.res # Running THEN ws
                                ELSE WriteStatement(i, self, ws),
                 [w |-> EncryptWrite_new(88), res |-> Running,
                  checks |-> <<>>],
                 1, 30))

(***************************************************************************)
(* The reader side.  A reader state is the underlying stream, the          *)
(* DecryptRead object over it, the result so far, the positions seen by    *)
(* the assert_eq!(r.position() % 4, 0) statements and the fields decoded.  *)
(***************************************************************************)
\* Read::read_exact(&mut buf) with buf of n bytes, on the DecryptRead: the
\* bytes come decrypted, however the stream splits them into reads; a stream
\* that ends first is an UnexpectedEof
read_exact(ps, n) ==
    LET pos == ps.r.bytes_read
        avail == Min(n, Len(ps.stream) - pos)
    IN  With(LAMBDA d : [ok |-> avail = n, r |-> d.r, buf |-> d.buf],
             DecryptRead_read(ps.r,
                              SubSeq(ps.stream, pos + 1, pos + avail)))

\* a variant of skip that drops one reserved byte more
skip_oneMore(ps, n) ==
    With(LAMBDA rd :
            IF rd.ok THEN [ps EXCEPT !.r = rd.r]
            ELSE [ps EXCEPT !.r = rd.r, !.res = UnexpectedEof],
         read_exact(ps, n + 1))

\* r.read_exact(&mut [0; n])?  (reserved bytes, read and dropped)
skip(ps, n) ==
    With(LAMBDA rd :
            IF rd.ok THEN [ps EXCEPT !.r = rd.r]
            ELSE [ps EXCEPT !.r = rd.r, !.res = UnexpectedEof],
         read_exact(ps, n))

\* read_exact into a buffer of n bytes, then buf_to_str(&buf)?
read_text(ps, field, n) ==
    With(LAMBDA rd :
            IF ~rd.ok THEN [ps EXCEPT !.r = rd.r, !.res = UnexpectedEof]
            ELSE With(LAMBDA s :
                    IF ~s.ok THEN [ps EXCEPT !.r = rd.r, !.res = Utf8Error]
                    ELSE [ps EXCEPT !.r = rd.r,
                                    !.book = (field :> s.str) @@ @],
                    buf_to_str(rd.buf)),
         read_exact(ps, n))

\* the password: read_exact, xor_password, buf_to_str
read_password(ps) ==
    With(LAMBDA rd :
            IF ~rd.ok THEN [ps EXCEPT !.r = rd.r, !.res = UnexpectedEof]
            ELSE With(LAMBDA x :
                    IF ~x.ok THEN [ps EXCEPT !.r = rd.r, !.res = Panic(x.what)]
                    ELSE With(LAMBDA s :
                            IF ~s.ok
                            THEN [ps EXCEPT !.r = rd.r, !.res = Utf8Error]
                            ELSE [ps EXCEPT !.r = rd.r,
                                            !.book = ("password" :> s.str) @@ @],
                            buf_to_str(x.pw)),
                    xor_password(rd.buf)),
         read_exact(ps, PASSWORD_LEN + 1))

\* r.read_f32 / read_i32 / read_i16 / read_u32::<LE>()?: n bytes as a number.
\* A float is kept as its bit pattern, and so is the u32 (as the i32 with the
\* same bits): nothing but equality is asked of either.
read_number(ps, field, n) ==
    With(LAMBDA rd :
            IF ~rd.ok THEN [ps EXCEPT !.r = rd.r, !.res = UnexpectedEof]
            ELSE [ps EXCEPT !.r = rd.r,
                            !.book = (field :> LEToInt(rd.buf)) @@ @],
         read_exact(ps, n))

\* Rank::try_from(r.read_i32::<LE>()?).map_err(...)?
read_rank(ps) ==
    With(LAMBDA rd :
            IF ~rd.ok THEN [ps EXCEPT !.r = rd.r, !.res = UnexpectedEof]
            ELSE With(LAMBDA t :
                    IF ~t.ok
                    THEN [ps EXCEPT !.r = rd.r, !.res = InvalidRank(t.number)]
                    ELSE [ps EXCEPT !.r = rd.r,
                                    !.book = ("rank" :> t.rank) @@ @],
                    Rank_try_from(LEToInt(rd.buf))),
         read_exact(ps, 4))

\* read_exact into a [0; BYTE_LEN] buffer, then ByteStruct::read_bytes
read_stats(ps, field, fields) ==
    With(LAMBDA rd :
            IF ~rd.ok THEN [ps EXCEPT !.r = rd.r, !.res = UnexpectedEof]
            ELSE [ps EXCEPT !.r = rd.r,
                            !.book = (field :> read_bytes(fields, rd.buf)) @@ @],
         read_exact(ps, BYTE_LEN(fields)))

\* r.read_u8()? > 0
medal_earned(b) == b > 0

\* the for loop over Medals::into_enum_iter() of Logbook::parse: one
\* read_u8 per medal
read_medals(ps) ==
    With(LAMBDA rd :
            IF ~rd.ok THEN [ps EXCEPT !.r = rd.r, !.res = UnexpectedEof]
            ELSE [ps EXCEPT !.r = rd.r,
                            !.book = ("medals" :>
                                        {Medals[i] : i \in
                                            {j \in 1..Len(Medals) :
                                                medal_earned(rd.buf[j])}}) @@ @],
         read_exact(ps, Len(Medals)))

\* assert_eq!(r.position() % 4, 0)
r_assert_aligned(ps) ==
    LET at == [ps EXCEPT !.checks = Append(@, ps.r.bytes_read)]
    IN  IF ps.r.bytes_read % 4 = 0 THEN at
        ELSE [at EXCEPT !.res = Panic("position")]

\* the statements of Logbook::parse after DecryptRead::new, in order
ParseStatement(i, ps) ==
    CASE i = 1 -> read_text(ps, "name", NAME_LEN + 1)
      [] i = 2 -> read_text(ps, "callsign", CALLSIGN_LEN + 1)
      [] i = 3 -> read_password(ps)
      [] i = 4 -> read_text(ps, "commissioned", COMM_LEN + 1)
      [] i = 5 -> read_text(ps, "options_file", CALLSIGN_LEN + 1)
      [] i = 6 -> skip(ps, 1)
      [] i = 7 -> read_number(ps, "flight_hours", 4)
      [] i = 8 -> read_number(ps, "ace_factor", 4)
      [] i = 9 -> read_rank(ps)
      [] i = 10 -> r_assert_aligned(ps)
      [] i = 11 -> read_stats(ps, "dogfight_stats", DogfightStats)
      [] i = 12 -> r_assert_aligned(ps)
      [] i = 13 -> read_stats(ps, "campaign_stats", CampaignStats)
      [] i = 14 -> skip(ps, 2)
      [] i = 15 -> r_assert_aligned(ps)
      [] i = 16 -> read_medals(ps)
      [] i = 17 -> skip(ps, 2)
      [] i = 18 -> r_assert_aligned(ps)
      [] i = 19 -> skip(ps, 4)
      [] i = 20 -> read_text(ps, "picture_file", FILENAME_LEN + 1)
      [] i = 21 -> skip(ps, 3)
      [] i = 22 -> r_assert_aligned(ps)
      [] i = 23 -> skip(ps, 4)
      [] i = 24 -> read_text(ps, "patch_file", FILENAME_LEN + 1)
      [] i = 25 -> read_text(ps, "personal_text", PERSONAL_TEXT_LEN + 1)
      [] i = 26 -> read_text(ps, "squadron", NAME_LEN)
      [] i = 27 -> read_number(ps, "voice", 2)
      [] i = 28 -> IF ensure_voice(ps.book.voice) THEN ps
                   ELSE [ps EXCEPT !.res = VoiceTooBig(ps.book.voice)]
      [] i = 29 -> read_number(ps, "checksum", 4)
      [] i = 30 -> IF ps.book.checksum = 0 THEN ps
                   ELSE [ps EXCEPT !.res = BadChecksum]
      [] i = 31 -> [ps EXCEPT !.res = Ok]

\* the fields of Logbook, as Ok(Self { ... }) lists them
LogbookFields ==
    {"name", "callsign", "password", "commissioned", "options_file",
     "flight_hours", "ace_factor", "rank", "dogfight_stats", "campaign_stats",
     "medals", "picture_file", "patch_file", "personal_text", "squadron",
     "voice"}

\* Logbook::parse: its statements in order until one of them returns or
\* panics; the result, the record when it is Ok, the number of bytes taken
\* from the stream and the positions the alignment asserts saw
Logbook_parse(bytes) ==
    With(LAMBDA end :
            [res |-> end.res,
             book |-> IF end.res = Ok
                      THEN [f \in LogbookFields |-> end.book[f]]
                      ELSE [none |-> TRUE],
             consumed |-> end.r.bytes_read,
             checks |-> end.checks],
         With(LAMBDA stream :
                ForEach(LAMBDA ps, i : IF ps.res # Running THEN ps
                                       ELSE ParseStatement(i, ps),
                        [stream |-> stream, r |-> DecryptRead_new(88),
                         res |-> Running, checks |-> <<>>, book |-> <<>>],
                        1, 31),
              bytes))

(***************************************************************************)
(* The cipher wrappers as a state machine: one writer and one reader, each *)
(* called with buffers of any size up to MaxChunk, over a sink that may    *)
(* accept, accept nothing or fail at each byte, and a source that may      *)
(* return fewer bytes than asked for.                                      *)
(***************************************************************************)
\* initial register values tried (0x58 is the one Logbook uses)
Registers == {0, 88, 255}

\* first byte of the generated inputs
Seeds == {201}

\* the byte sequences tried: length n, byte i is seed + 37 * i (mod 256)
Inputs ==
    { [i \in 1..n |-> (s + 37 * (i - 1)) % 256] : s \in Seeds, n \in 0..MaxLen }

NoRet == [ok |-> TRUE, n |-> -1]

\* what the sink does for a buffer of n bytes of which it accepts k and then
\* answers `stop` ("one" when k = n: nothing stops it)
SinkDoes(n, k, stop) == [i \in 1..n |-> IF i <= k THEN "one" ELSE stop]

\* the bytes the writer is fed, and the bytes the reader's inner stream holds
WriterSource == IF dir = "enc_dec" THEN input ELSE rout
ReaderSource == IF dir = "enc_dec" THEN ew.inner ELSE input

\* no record in memory; no file; no operation yet
NoBook == [none |-> TRUE]
NoFile == <<-1>>
NoResult == [res |-> [kind |-> "None"]]
NoBefore == [last |-> "nothing"]

CodecIdle ==
    /\ book = NoBook /\ file = NoFile /\ last = "none"
    /\ result = NoResult /\ before = NoBefore

InitCipher ==
    /\ input \in Inputs
    /\ reg0 \in Registers
    /\ dir \in {"enc_dec", "dec_enc"}
    /\ ew = EncryptWrite_new(reg0)
    /\ reported = <<>>
    /\ wret = NoRet
    /\ wsink = "none"
    /\ dr = DecryptRead_new(reg0)
    /\ rout = <<>>
    /\ rret = NoRet
    /\ CodecIdle

\* the second stage runs on what the first stage has finished producing
\* (the file is written, then read)
WriterReady == dir = "enc_dec" \/ Len(rout) = Len(input)
ReaderReady == dir = "dec_enc" \/ Len(ew.inner) = Len(input)

\* one EncryptWrite::write call: the caller hands over the next n bytes it
\* has not yet seen reported as written
Write ==
    \E n \in 1..MaxChunk, k \in 0..MaxChunk, stop \in {"one", "zero", "err"} :
        /\ WriterReady
        /\ n <= Len(WriterSource) - Len(reported)
        /\ k <= n
        /\ (stop = "one") = (k = n)
        /\ LET buf == SubSeq(WriterSource, Len(reported) + 1, Len(reported) + n)
               res == EncryptWrite_write(ew, buf, SinkDoes(n, k, stop))
           IN  /\ ew' = res.w
               /\ wret' = res.ret
               /\ wsink' = stop
               /\ reported' = reported \o Take(buf, res.ret.n)
        /\ UNCHANGED <<input, reg0, dir, dr, rout, rret>>
        /\ UNCHANGED codecVars

\* one DecryptRead::read call whose inner.read returns k bytes
Read ==
    \E k \in 1..MaxChunk :
        /\ ReaderReady
        /\ k <= Len(ReaderSource) - dr.bytes_read
        /\ LET got == SubSeq(ReaderSource, dr.bytes_read + 1, dr.bytes_read + k)
               res == DecryptRead_read(dr, got)
           IN  /\ dr' = res.r
               /\ rout' = rout \o res.buf
               /\ rret' = IoOk(k)
        /\ UNCHANGED <<input, reg0, dir, ew, reported, wret, wsink>>
        /\ UNCHANGED codecVars

\* one DecryptRead::read call whose inner.read fails: the ? returns early
ReadFails ==
    /\ ReaderReady
    /\ rret' = IoErr
    /\ rret # IoErr
    /\ UNCHANGED <<input, reg0, dir, ew, reported, wret, wsink, dr, rout>>
    /\ UNCHANGED codecVars

NextCipher == Write \/ Read \/ ReadFails

SpecCipher == InitCipher /\ [][NextCipher]_vars

(***************************************************************************)
(* The codec as a state machine (main.rs): a record arrives (the JSON of   *)
(* `write`, or Logbook::new for `write-default`) or a logbook file does;   *)
(* `write` encodes the record in memory to the file and `read` decodes the *)
(* file to the record in memory.                                           *)
(***************************************************************************)
\* Logbook::new: name, callsign and password as given, the options file
\* named after the callsign, commissioned on `today` ([month]/[day]/[year]),
\* everything else Default::default()
Logbook_new(name, callsign, password, today) ==
    [name |-> name, callsign |-> callsign, password |-> password,
     commissioned |-> today, options_file |-> callsign,
     flight_hours |-> 0, ace_factor |-> 0, rank |-> "SecondLt",
     dogfight_stats |-> [i \in {DogfightStats[j][1] :
                                  j \in 1..Len(DogfightStats)} |-> 0],
     campaign_stats |-> [i \in {CampaignStats[j][1] :
                                  j \in 1..Len(CampaignStats)} |-> 0],
     medals |-> {}, picture_file |-> <<>>, patch_file |-> <<>>,
     personal_text |-> <<>>, squadron |-> <<>>, voice |-> 0]

\* a text of n capital letters starting at the letter numbered `first`
Text(n, first) == [i \in 1..n |-> 65 + ((first + i - 1) % 26)]

\* statistics for the given fields: all zero (0), the field's number in the
\* declaration (1), or the extremes of its type, alternating (2)
StatsOf(fields, k) ==
    [f \in {fields[j][1] : j \in 1..Len(fields)} |->
        LET j == CHOOSE j \in 1..Len(fields) : fields[j][1] = f
            top == IF fields[j][2] = 2 THEN 32767 ELSE 2147483647
        IN  CASE k = 0 -> 0
              [] k = 1 -> j
              [] k = 2 -> IF j % 2 = 0 THEN top ELSE -top - 1]

\* "Ace", "VIPER1", "hunter2", "11/01/26"
Ace == <<65, 99, 101>>
Viper1 == <<86, 73, 80, 69, 82, 49>>
Hunter2 == <<104, 117, 110, 116, 101, 114, 50>>
Today == <<49, 49, 47, 48, 49, 47, 50, 54>>

\* a record with something different in every field
BaseBook ==
    [name |-> Text(5, 0), callsign |-> Viper1, password |-> Hunter2,
     commissioned |-> Today, options_file |-> Text(6, 3),
     flight_hours |-> 1069547520,       \* the bits of 1.5f32
     ace_factor |-> -1073741824,        \* the bits of -2.0f32
     rank |-> "Captain",
     dogfight_stats |-> StatsOf(DogfightStats, 1),
     campaign_stats |-> StatsOf(CampaignStats, 1),
     medals |-> {"SilverStar", "KoreaCampaign"},
     picture_file |-> Text(9, 11), patch_file |-> Text(4, 13),
     personal_text |-> Text(30, 17), squadron |-> Text(8, 19), voice |-> 3]

\* the text fields of Logbook with the width each is written to
TextFields ==
    << <<"name", NAME_LEN + 1>>, <<"callsign", CALLSIGN_LEN + 1>>,
       <<"password", PASSWORD_LEN + 1>>, <<"commissioned", COMM_LEN + 1>>,
       <<"options_file", CALLSIGN_LEN + 1>>,
       <<"picture_file", FILENAME_LEN + 1>>,
       <<"patch_file", FILENAME_LEN + 1>>,
       <<"personal_text", PERSONAL_TEXT_LEN + 1>>,
       <<"squadron", NAME_LEN>> >>

\* the texts tried in a field written to `width` bytes: empty, one letter,
\* the longest that fits, up to MaxOver too long, one with a two-byte
\* character (e acute), one with a zero byte in it and one that is only one
TextsFor(width) ==
    { Text(n, 1) : n \in {0, 1, width - 1} \cup (width..(width + MaxOver)) }
    \cup { <<66, 195, 169>>, <<65, 0, 66>>, <<0>> }

\* the voice indices tried in a record or a stream
Voices == {-32768, -1, 0, 11, 12, 32767}

\* the voice indices tried together with each text
FewVoices == {-1, 11, 12}

\* the records given to `write`: one text field and the voice varied; rank,
\* medals and statistics varied; and fresh records
Books ==
    { [BaseBook EXCEPT ![TextFields[j][1]] = t, !.voice = v] :
        <<j, t, v>> \in
            { <<j, t, v>> \in (1..Len(TextFields))
                            \X (UNION {TextsFor(TextFields[k][2]) :
                                        k \in 1..Len(TextFields)})
                            \X FewVoices :
                t \in TextsFor(TextFields[j][2]) } }
    \cup
    { [BaseBook EXCEPT !.voice = v] : v \in Voices }
    \cup
    { [BaseBook EXCEPT !.rank = Rank[r], !.medals = m,
                       !.dogfight_stats = StatsOf(DogfightStats, k),
                       !.campaign_stats = StatsOf(CampaignStats, k)] :
        <<r, m, k>> \in (1..Len(Rank))
                      \X {{}, {"AirForceCross"},
                          {Medals[i] : i \in 1..Len(Medals)}}
                      \X {0, 2} }
    \cup
    { Logbook_new(Ace, Viper1, pw, Today) : pw \in {<<>>, Hunter2} }

\* a stream without its cipher, and the stream of a plaintext
Plain(stream) == DecryptRead_read(DecryptRead_new(88), stream).buf
Cipher(plain) == write_all(EncryptWrite_new(88), plain).inner

\* p with the bytes at 0-based offset `off` replaced
Patch(p, off, bytes) ==
    [i \in 1..Len(p) |->
        IF i - off \in 1..Len(bytes) THEN bytes[i - off] ELSE p[i]]

\* the 0-based offsets of the fields in the stream, from the widths of the
\* reads of Logbook::parse
OffCallsign == NAME_LEN + 1
OffPassword == OffCallsign + CALLSIGN_LEN + 1
OffCommissioned == OffPassword + PASSWORD_LEN + 1
OffOptions == OffCommissioned + COMM_LEN + 1
OffPad1 == OffOptions + CALLSIGN_LEN + 1
OffRank == OffPad1 + 1 + 4 + 4
OffDogfight == OffRank + 4
OffCampaign == OffDogfight + BYTE_LEN(DogfightStats)
OffPad2 == OffCampaign + BYTE_LEN(CampaignStats)
OffMedals == OffPad2 + 2
OffPad3 == OffMedals + Len(Medals)
OffPictureId == OffPad3 + 2
OffPicture == OffPictureId + 4
OffPad4 == OffPicture + FILENAME_LEN + 1
OffPatchId == OffPad4 + 3
OffPatch == OffPatchId + 4
OffPersonal == OffPatch + FILENAME_LEN + 1
OffSquadron == OffPersonal + PERSONAL_TEXT_LEN + 1
OffVoice == OffSquadron + NAME_LEN
OffChecksum == OffVoice + 2
StreamLen == OffChecksum + 4

\* the plaintext of the base record's stream
BasePlain == Plain(Logbook_write(BaseBook).out)

\* changes to one place of the plaintext: nothing; reserved bytes set;
\* bytes after a text's terminator set; bytes that are not UTF-8; the
\* password's terminator set; medal flags other than 0 and 1; a squadron
\* that fills its field
PlacePatches ==
    { <<0, <<>> >> }
    \cup { <<off, <<7>> >> :
            off \in {OffPad1, OffPad2, OffPad2 + 1, OffPad3, OffPictureId,
                     OffPad4 + 2, OffPatchId + 3} }
    \cup { <<NAME_LEN, <<90>> >>, <<OffPersonal + PERSONAL_TEXT_LEN, <<90>> >>,
           <<OffPassword + 8, <<MaskByte(8, 90)>> >>,
           <<OffVoice - 1, <<90>> >> }
    \cup { <<0, <<255>> >>, <<NAME_LEN, <<255>> >>,
           <<OffPatch, <<195, 0>> >> }
    \cup { <<OffPassword + PASSWORD_LEN, <<1>> >> }
    \cup { <<OffMedals, <<2, 0, 255>> >>, <<OffMedals + 1, <<0>> >> }
    \cup { <<OffSquadron, Text(NAME_LEN, 5)>>, <<0, Text(NAME_LEN + 1, 2)>> }

\* changes to the validated numbers: nothing; the rank; the voice index; the
\* sentinel
NumberPatches ==
    { <<0, <<>> >> }
    \cup { <<OffRank, IntToLE(v, 4)>> : v \in {-1, 0, 6, 7, 9, 256} }
    \cup { <<OffVoice, IntToLE(v, 2)>> : v \in Voices }
    \cup { <<OffChecksum, IntToLE(v, 4)>> : v \in {1, 16777216} }

\* the logbook files given to `read`: the base stream changed in one place
\* and one number; and the base stream changed in one number and cut short
\* or with up to MaxExtra bytes after the sentinel
Streams ==
    { Cipher(Patch(Patch(BasePlain, a[1], a[2]), b[1], b[2])) :
        <<a, b>> \in PlacePatches \X NumberPatches }
    \cup
    { Cipher(Patch(BasePlain, b[1], b[2]) \o [i \in 1..n |-> 33]) :
        <<b, n>> \in NumberPatches \X (1..MaxExtra) }
    \cup
    { Cipher(Take(Patch(BasePlain, b[1], b[2]), n)) :
        <<b, n>> \in NumberPatches
                    \X {0, NAME_LEN, OffRank + 2, StreamLen - 1} }

InitCodec ==
    /\ \/ book \in Books /\ file = NoFile
       \/ book = NoBook /\ file \in Streams
    /\ last = "none"
    /\ result = NoResult
    /\ before = NoBefore
    /\ input = <<>> /\ reg0 = 88 /\ dir = "none"
    /\ ew = EncryptWrite_new(88) /\ reported = <<>> /\ wret = NoRet
    /\ wsink = "none"
    /\ dr = DecryptRead_new(88) /\ rout = <<>> /\ rret = NoRet

Snapshot == [book |-> book, file |-> file, last |-> last, result |-> result]

\* main's Command::Write / Command::WriteDefault: book.write(&mut w).  The
\* file holds what the sink received, also when write fails part way.
CmdWrite ==
    /\ book # NoBook
    /\ last # "write"
    /\ LET wr == Logbook_write(book)
       IN  /\ file' = wr.out
           /\ result' = [res |-> wr.res, checks |-> wr.checks]
    /\ last' = "write"
    /\ before' = Snapshot
    /\ UNCHANGED book
    /\ UNCHANGED cipherVars

\* main's Command::Read: Logbook::parse(r)
CmdRead ==
    /\ file # NoFile
    /\ last # "parse"
    /\ LET pr == Logbook_parse(file)
       IN  /\ book' = pr.book
           /\ result' = [res |-> pr.res, checks |-> pr.checks,
                         consumed |-> pr.consumed]
    /\ last' = "parse"
    /\ before' = Snapshot
    /\ UNCHANGED file
    /\ UNCHANGED cipherVars

NextCodec == CmdWrite \/ CmdRead

SpecCodec == InitCodec /\ [][NextCodec]_vars

(***************************************************************************)
(* Properties of the codec.                                                *)
(***************************************************************************)
Wrote == last = "write"
Parsed == last = "parse"
\* the bytes at 0-based offset off, n of them
Slice(p, off, n) == SubSeq(p, off + 1, off + n)

\* the width a text field is written to
WidthOf(j) == TextFields[j][2]
FieldOf(j) == TextFields[j][1]

\* every text field is below its width (so the password is at most 10 bytes)
TextsFit(r) == \A j \in 1..Len(TextFields) : Len(r[FieldOf(j)]) < WidthOf(j)

\* a valid record as the claims have it: texts within their widths, a rank of
\* the enumeration, a voice index in 0..11
ValidRecord(r) ==
    /\ TextsFit(r)
    /\ \E i \in 1..Len(Rank) : Rank[i] = r.rank
    /\ r.voice \in 0..11

\* no text field holds a zero byte
NoNul(r) ==
    \A j \in 1..Len(TextFields) :
        \A i \in 1..Len(r[FieldOf(j)]) : r[FieldOf(j)][i] # 0

\* C2 as stated: every valid record is written and read back equal.
C2_Original ==
    /\ (Wrote /\ ValidRecord(book)) => result.res = Ok
    /\ (Parsed /\ before.last = "write" /\ ValidRecord(before.book))
          => (result.res = Ok /\ book = before.book)

\* C2 (amended): every valid record is written successfully, and every valid
\* record whose text fields and password hold no zero byte is read back from
\* the bytes written equal in every field.
C2_RoundTrip ==
    /\ (Wrote /\ ValidRecord(book)) => result.res = Ok
    /\ (Parsed /\ before.last = "write" /\ ValidRecord(before.book)
          /\ NoNul(before.book))
          => (result.res = Ok /\ book = before.book)

\* a record with the longest squadron, the top voice index, medals and
\* statistics, read back from what was written
C2_Witness ==
    /\ Parsed /\ before.last = "write"
    /\ ValidRecord(before.book) /\ NoNul(before.book)
    /\ book = before.book
    /\ Len(book.squadron) = NAME_LEN - 1
    /\ book.voice = 11
    /\ book.medals # {}
    /\ book.campaign_stats.naval_kills = 15

\* the voice index stored in a stream, when the stream reaches that far
HasVoice(stream) == Len(stream) >= OffVoice + 2 /\ stream # NoFile
StoredVoice(stream) == LEToInt(Slice(Plain(stream), OffVoice, 2))

\* C3: a voice index outside 0..11 is refused in both directions, and the
\* error names it.
C3_VoiceRange ==
    /\ (Wrote /\ book.voice \notin 0..11 /\ TextsFit(book))
          => result.res = VoiceTooBig(book.voice)
    /\ (Parsed /\ HasVoice(before.file)
          /\ StoredVoice(before.file) \notin 0..11)
          => result.res # Ok

\* the reserved bytes of the layout: offset and length
Reserved ==
    { <<OffPad1, 1>>, <<OffPad2, 2>>, <<OffPad3, 2>>, <<OffPictureId, 4>>,
      <<OffPad4, 3>>, <<OffPatchId, 4>> }

\* offset and width of each text field in the stream, in the order of
\* TextFields
TextOffsets ==
    <<0, OffCallsign, OffPassword, OffCommissioned, OffOptions, OffPicture,
      OffPatch, OffPersonal, OffSquadron>>

\* buf holds a zero byte and nothing but zero bytes from the first one on
ZeroTail(buf) ==
    \E i \in 1..Len(buf) :
        /\ \A j \in 1..(i - 1) : buf[j] # 0
        /\ \A j \in i..Len(buf) : buf[j] = 0

\* the text field j of plaintext p (the password without its mask)
TextBytes(p, j) ==
    IF FieldOf(j) = "password"
    THEN [i \in 1..WidthOf(j) |->
            IF i <= PASSWORD_LEN
            THEN MaskByte(i - 1, p[OffPassword + i]) ELSE p[OffPassword + i]]
    ELSE Slice(p, TextOffsets[j], WidthOf(j))

\* a stream in the form Logbook::write gives it: exactly as long as the
\* layout, reserved bytes zero, text fields zero from their first zero byte
\* on, medal flags 0 or 1
Canonical(stream) ==
    /\ Len(stream) = StreamLen
    /\ With(LAMBDA p :
            /\ \A rs \in Reserved : Slice(p, rs[1], rs[2]) = Zeros(rs[2])
            /\ \A j \in 1..Len(TextFields) : ZeroTail(TextBytes(p, j))
            /\ \A i \in 1..Len(Medals) : p[OffMedals + i] \in {0, 1},
            Plain(stream))

\* C4 as stated: writing the record of any accepted stream gives the stream.
C4_Original ==
    (Wrote /\ before.last = "parse" /\ before.result.res = Ok)
        => (result.res = Ok /\ file = before.file)

\* a text field of the stream holds no zero byte
Unterminated(stream) ==
    With(LAMBDA p :
            \E j \in 1..Len(TextFields) :
                \A i \in 1..WidthOf(j) : TextBytes(p, j)[i] # 0,
         Plain(stream))

\* C4 (amended): for every stream that parse accepts and that is exactly as
\* long as the layout, with every reserved byte zero, every text field (the
\* password without its mask) holding a zero byte and only zero bytes after
\* its first one, and every medal flag 0 or 1, writing the record parsed
\* succeeds and emits exactly the bytes of the stream.  For a stream that
\* parse accepts with a text field that holds no zero byte (a squadron of 20
\* bytes, a name of 21), writing the record parsed fails: the text is too
\* long.
C4_Symmetry ==
    (Wrote /\ before.last = "parse" /\ before.result.res = Ok) =>
        /\ Canonical(before.file) => (result.res = Ok /\ file = before.file)
        /\ Unterminated(before.file) => result.res.kind = "TooLong"

\* a stream with rank 6 and two medals, parsed and written back
C4_Witness ==
    /\ Wrote /\ before.last = "parse" /\ before.result.res = Ok
    /\ Canonical(before.file)
    /\ file = before.file
    /\ book.rank = "BrigadierGeneral"
    /\ book.medals = {"SilverStar", "KoreaCampaign"}

\* the layout: each field's kind, name and width, in order
C6_Fields ==
    << <<"text", "name", 21>>, <<"text", "callsign", 13>>,
       <<"password", "password", 11>>, <<"text", "commissioned", 13>>,
       <<"text", "options_file", 13>>, <<"reserved", "", 1>>,
       <<"number", "flight_hours", 4>>, <<"number", "ace_factor", 4>>,
       <<"rank", "rank", 4>>,
       <<"dogfight", "matches_won", 2>>, <<"dogfight", "matches_lost", 2>>,
       <<"dogfight", "matches_won_versus_humans", 2>>,
       <<"dogfight", "matches_lost_versus_humans", 2>>,
       <<"dogfight", "kills", 2>>, <<"dogfight", "killed", 2>>,
       <<"dogfight", "human_kills", 2>>,
       <<"dogfight", "killed_versus_humans", 2>>,
       <<"campaign", "games_won", 2>>, <<"campaign", "game_lost", 2>>,
       <<"campaign", "games_tied", 2>>, <<"campaign", "missions", 2>>,
       <<"campaign", "total_score", 4>>,
       <<"campaign", "total_mission_score", 4>>,
       <<"campaign", "consecutive_missions", 2>>, <<"campaign", "kills", 2>>,
       <<"campaign", "killed", 2>>, <<"campaign", "human_kills", 2>>,
       <<"campaign", "killed_versus_humans", 2>>,
       <<"campaign", "self_kills", 2>>,
       <<"campaign", "air_to_ground_kills", 2>>,
       <<"campaign", "static_kills", 2>>, <<"campaign", "naval_kills", 2>>,
       <<"campaign", "friendly_kills", 2>>,
       <<"campaign", "missions_since_last_friendly_kill", 2>>,
       <<"reserved", "", 2>>,
       <<"medal", "AirForceCross", 1>>, <<"medal", "SilverStar", 1>>,
       <<"medal", "DistinguishedFlyingCross", 1>>, <<"medal", "AirMedal", 1>>,
       <<"medal", "KoreaCampaign", 1>>, <<"medal", "Longevity", 1>>,
       <<"reserved", "", 2>>, <<"reserved", "", 4>>,
       <<"text", "picture_file", 33>>, <<"reserved", "", 3>>,
       <<"reserved", "", 4>>, <<"text", "patch_file", 33>>,
       <<"text", "personal_text", 121>>, <<"text", "squadron", 20>>,
       <<"number", "voice", 2>>, <<"sentinel", "", 4>> >>

\* the 0-based offset of field k of the layout: the widths before it, summed
C6_Offset(k) ==
    ForEach(LAMBDA sum, i : sum + C6_Fields[i][3], 0, 1, k - 1)

\* the bytes field f of the layout holds for record r
C6_Bytes(f, r) ==
    CASE f[1] = "text" -> r[f[2]] \o Zeros(f[3] - Len(r[f[2]]))
      [] f[1] = "password" ->
            [i \in 1..f[3] |->
                IF i <= 10
                THEN MaskByte(i - 1, (r[f[2]] \o Zeros(f[3]))[i]) ELSE 0]
      [] f[1] \in {"reserved", "sentinel"} -> Zeros(f[3])
      [] f[1] = "number" -> IntToLE(r[f[2]], f[3])
      [] f[1] = "rank" ->
            IntToLE((CHOOSE i \in 1..7 : Rank[i] = r.rank) - 1, f[3])
      [] f[1] = "dogfight" -> IntToLE(r.dogfight_stats[f[2]], f[3])
      [] f[1] = "campaign" -> IntToLE(r.campaign_stats[f[2]], f[3])
      [] f[1] = "medal" -> IF f[2] \in r.medals THEN <<1>> ELSE <<0>>

\* record r has in field f of the layout what the bytes b say
C6_Holds(f, r, b) ==
    CASE f[1] = "text" -> r[f[2]] = UpToNul(b)
      [] f[1] = "password" ->
            r[f[2]] = UpToNul([i \in 1..f[3] |->
                                IF i <= 10 THEN MaskByte(i - 1, b[i])
                                ELSE b[i]])
      [] f[1] = "reserved" -> TRUE
      [] f[1] = "sentinel" -> b = Zeros(f[3])
      [] f[1] = "number" -> r[f[2]] = LEToInt(b)
      [] f[1] = "rank" -> r.rank = Rank[LEToInt(b) + 1]
      [] f[1] = "dogfight" -> r.dogfight_stats[f[2]] = LEToInt(b)
      [] f[1] = "campaign" -> r.campaign_stats[f[2]] = LEToInt(b)
      [] f[1] = "medal" -> (f[2] \in r.medals) = (b[1] > 0)

\* C6 as stated, with campaign statistics of 13 x int16 + 2 x int32: the
\* total length is the sum of the widths listed.
C6_Original ==
    /\ (Wrote /\ result.res = Ok)
          => Len(file) = 21 + 13 + 11 + 13 + 13 + 1 + 4 + 4 + 4 + 16
                         + (13 * 2 + 2 * 4) + 2 + 6 + 2 + 4 + 33 + 3 + 4 + 33
                         + 121 + 20 + 2 + 4
    /\ (Parsed /\ result.res = Ok)
          => result.consumed = 21 + 13 + 11 + 13 + 13 + 1 + 4 + 4 + 4 + 16
                               + (13 * 2 + 2 * 4) + 2 + 6 + 2 + 4 + 33 + 3 + 4
                               + 33 + 121 + 20 + 2 + 4

\* C6 (amended): the campaign statistics are 15 x int16 + 2 x int32 (38
\* bytes: four int16, the two int32 scores, eleven int16).  Every successful
\* write emits, and every successful parse consumes, the fields of C6_Fields
\* in that order and with those widths, 372 bytes whatever the record holds.
C6_Layout ==
    /\ (Wrote /\ result.res = Ok) =>
          /\ Len(file) = 372
          /\ With(LAMBDA p :
                    \A k \in 1..Len(C6_Fields) :
                        Slice(p, C6_Offset(k), C6_Fields[k][3])
                            = C6_Bytes(C6_Fields[k], book),
                  Plain(file))
    /\ (Parsed /\ result.res = Ok) =>
          /\ result.consumed = 372
          /\ With(LAMBDA p :
                    \A k \in 1..Len(C6_Fields) :
                        C6_Holds(C6_Fields[k], book,
                                 Slice(p, C6_Offset(k), C6_Fields[k][3])),
                  Plain(before.file))

\* a record with the extremes of every counter and all medals, written
C6_Witness ==
    /\ Wrote /\ result.res = Ok
    /\ book.campaign_stats.total_score = -2147483647 - 1
    /\ book.campaign_stats.total_mission_score = 2147483647
    /\ book.medals = {Medals[i] : i \in 1..Len(Medals)}

\* the on-disk width of each text field, in the order they are written:
\* name, callsign, password, commission date, options filename, picture
\* filename, patch filename, personal text, squadron
C7_Widths == <<21, 13, 11, 13, 13, 33, 33, 121, 20>>

\* the first text field, in the order they are written, that is too long
\* (0 if none is)
FirstTooLong(r) ==
    IF \A j \in 1..Len(TextFields) : Len(r[FieldOf(j)]) < C7_Widths[j]
    THEN 0
    ELSE CHOOSE j \in 1..Len(TextFields) :
            /\ Len(r[FieldOf(j)]) >= C7_Widths[j]
            /\ \A i \in 1..(j - 1) : Len(r[FieldOf(i)]) < C7_Widths[i]

\* C7: write fails, naming the value and the limit, whenever a text field is
\* as long as its width or longer (the password: longer than 10); otherwise
\* no length check fails and each text field is written as its content and
\* then zero bytes up to its width.
C7_Lengths ==
    Wrote =>
        With(LAMBDA j :
                IF j > 0
                THEN /\ result.res.kind =
                            (IF FieldOf(j) = "password" THEN "PasswordTooLong"
                             ELSE "TooLong")
                     /\ result.res.value = book[FieldOf(j)]
                     /\ result.res.limit = C7_Widths[j] - 1
                ELSE /\ result.res.kind \notin {"TooLong", "PasswordTooLong"}
                     /\ With(LAMBDA p :
                                \A i \in 1..Len(TextFields) :
                                    FieldOf(i) # "password" =>
                                        Slice(p, TextOffsets[i], C7_Widths[i])
                                          = book[FieldOf(i)]
                                              \o Zeros(C7_Widths[i]
                                                   - Len(book[FieldOf(i)])),
                             Plain(file)),
             FirstTooLong(book))

\* a squadron of exactly 20 bytes is refused with the limit 19
C7_Witness ==
    /\ Wrote
    /\ Len(book.squadron) = 20
    /\ result.res = TooLong(book.squadron, 19)

\* the rank and the sentinel stored in a stream that reaches that far
HasRank(stream) == stream # NoFile /\ Len(stream) >= OffRank + 4
StoredRank(stream) == LEToInt(Slice(Plain(stream), OffRank, 4))
HasSentinel(stream) == stream # NoFile /\ Len(stream) >= StreamLen
StoredSentinel(stream) == Slice(Plain(stream), OffChecksum, 4)

\* the fields before the rank decode: they are UTF-8 and the password's
\* terminator is zero
BeforeRankDecodes(stream) ==
    With(LAMBDA p :
            /\ p[OffPassword + PASSWORD_LEN + 1] = 0
            /\ \A j \in 1..5 : from_utf8_ok(TextBytes(p, j)),
         Plain(stream))

\* C8: parse never returns a record for a rank integer outside 0..6 or a
\* sentinel that is not zero; when the fields before the rank decode, the
\* error cites the rank integer; a rank integer in 0..6 decodes to the rank
\* with that ordinal (2 is Captain).
C8_RankSentinel ==
    Parsed =>
        /\ (HasRank(before.file) /\ StoredRank(before.file) \notin 0..6) =>
              /\ result.res # Ok
              /\ book = NoBook
              /\ BeforeRankDecodes(before.file)
                    => result.res = InvalidRank(StoredRank(before.file))
        /\ (HasSentinel(before.file)
              /\ StoredSentinel(before.file) # <<0, 0, 0, 0>>) =>
              /\ result.res # Ok
              /\ book = NoBook
        /\ (result.res = Ok) =>
              /\ StoredRank(before.file) \in 0..6
              /\ StoredSentinel(before.file) = <<0, 0, 0, 0>>
              /\ book.rank =
                    <<"SecondLt", "Leiutenant", "Captain", "Major",
                      "LtColonel", "Colonel", "BrigadierGeneral">>
                        [StoredRank(before.file) + 1]
              /\ StoredRank(before.file) = 2 => book.rank = "Captain"

\* a stream whose rank integer is 9 is refused citing 9
C8_Witness ==
    /\ Parsed
    /\ HasRank(before.file)
    /\ StoredRank(before.file) = 9
    /\ result.res = InvalidRank(9)

\* C9: every position an alignment assert of parse or write sees is a
\* multiple of 4, so none of them fails; a run that succeeds has passed all
\* five, at 84, 100, 140, 148 and 188 bytes.
C9_Aligned ==
    (Wrote \/ Parsed) =>
        /\ \A i \in 1..Len(result.checks) : result.checks[i] % 4 = 0
        /\ result.res # Panic("position")
        /\ result.res = Ok => result.checks = <<84, 100, 140, 148, 188>>

\* the longest personal text written past all five checkpoints
C9_Witness ==
    /\ Wrote /\ result.res = Ok
    /\ Len(book.personal_text) = PERSONAL_TEXT_LEN
    /\ Len(result.checks) = 5

(***************************************************************************)
(* Properties of the cipher wrappers.                                      *)
(***************************************************************************)
\* the feedback register in force at 1-based position i of ciphertext c
RegBefore(c, i) == IF i = 1 THEN reg0 ELSE c[i - 1]

\* the key byte the writer used at 1-based position i, recovered from what
\* it was given and what it emitted
KeyUsedEnc(i) == Xor(Xor(ew.inner[i], reported[i]), RegBefore(ew.inner, i))

\* the key byte the reader used at 1-based position i
KeyUsedDec(i) == Xor(Xor(rout[i], ReaderSource[i]), RegBefore(ReaderSource, i))

\* the register feedback both directions are specified to have
FeedbackAsSpecified ==
    /\ ew.start = RegBefore(ew.inner, Len(ew.inner) + 1)
    /\ dr.start = RegBefore(ReaderSource, dr.bytes_read + 1)
    /\ Len(rout) = dr.bytes_read

\* C1: decrypting what was encrypted, and encrypting what was decrypted,
\* with the same initial register gives back the input, for every input
\* length (the empty input included): at every point the second stage's
\* output is the prefix of the input it has got to, and so the whole input
\* once it has consumed everything.
C1_Inverses ==
    /\ dir = "enc_dec" => /\ Len(rout) <= Len(input)
                          /\ rout = Take(input, Len(rout))
                          /\ dr.bytes_read = Len(input) => rout = input
    /\ dir = "dec_enc" => /\ Len(ew.inner) <= Len(input)
                          /\ ew.inner = Take(input, Len(ew.inner))
                          /\ Len(reported) = Len(input) => ew.inner = input

\* a full decrypt-then-encrypt round trip of a longest input
C1_Witness ==
    /\ dir = "dec_enc"
    /\ Len(input) = MaxLen
    /\ Len(rout) = MaxLen
    /\ rout # input
    /\ Len(ew.inner) = MaxLen

\* C5 as stated: the key has period 22, i.e. the key byte used depends only
\* on the position modulo 22, with the specified register feedback.
C5_Original ==
    /\ FeedbackAsSpecified
    /\ \A i \in 1..Len(ew.inner) : \A j \in 1..Len(ew.inner) :
          (i % 22 = j % 22) => KeyUsedEnc(i) = KeyUsedEnc(j)
    /\ \A i \in 1..Len(rout) : \A j \in 1..Len(rout) :
          (i % 22 = j % 22) => KeyUsedDec(i) = KeyUsedDec(j)

\* C5 (amended): the master key is the 21 bytes "Falcon is your Master";
\* the byte at 0-based position i is combined with K[i mod 21] and the
\* register, the register then becomes the ciphertext byte at i, and so
\* the key byte used at position i equals the one used at position i + 21.
C5_CipherFunction ==
    /\ Len(MASTER_KEY) = 21
    /\ FeedbackAsSpecified
    /\ \A i \in 1..Len(ew.inner) :
          /\ ew.inner[i] =
                Xor(Xor(reported[i], MASTER_KEY[((i - 1) % 21) + 1]),
                    RegBefore(ew.inner, i))
          /\ i + 21 <= Len(ew.inner) => KeyUsedEnc(i) = KeyUsedEnc(i + 21)
    /\ \A i \in 1..Len(rout) :
          /\ rout[i] =
                Xor(Xor(ReaderSource[i], RegBefore(ReaderSource, i)),
                    MASTER_KEY[((i - 1) % 21) + 1])
          /\ i + 21 <= Len(rout) => KeyUsedDec(i) = KeyUsedDec(i + 21)

\* both directions have gone past the end of the key
C5_Witness ==
    /\ dir = "enc_dec"
    /\ Len(ew.inner) > 22
    /\ Len(rout) > 22

\* the encoding of plaintext p in one call over a sink that takes every byte
EncodeWhole(p) ==
    EncryptWrite_write(EncryptWrite_new(reg0), p,
                       [i \in 1..Len(p) |-> "one"]).w.inner

\* the decoding of ciphertext c delivered by a single read
DecodeWhole(c) == DecryptRead_read(DecryptRead_new(reg0), c).buf

\* C10: whatever the chunking and whatever the sink accepted, refused or
\* failed on, the sink holds the encoding of exactly the bytes reported as
\* written, bytes_written counts the bytes the sink holds, the register is
\* the last byte the sink took (the initial value if none); and the reader's
\* output is that of a single read of the ciphertext it has consumed.
C10_Consistent ==
    /\ ew.inner = EncodeWhole(reported)
    /\ ew.bytes_written = Len(ew.inner)
    /\ Len(reported) = Len(ew.inner)
    /\ reported = Take(WriterSource, Len(reported))
    /\ ew.start = (IF ew.inner = <<>> THEN reg0 ELSE ew.inner[Len(ew.inner)])
    /\ rout = DecodeWhole(Take(ReaderSource, dr.bytes_read))

\* after reads split one byte at a time, a write past the end of the key
\* that the sink cut short by failing after one byte
C10_Witness ==
    /\ dir = "dec_enc"
    /\ rret = IoOk(1)
    /\ Len(rout) > Len(MASTER_KEY)
    /\ wsink = "err"
    /\ wret = IoOk(1)
    /\ Len(ew.inner) > Len(MASTER_KEY)

=============================================================================
